---- MODULE Spec2Model ----
(***************************************************************************)
(* The switching / blending loop of src/generator.py (switching_process)   *)
(* and the helpers it calls: update_weights, reset_weights, random_switch, *)
(* start_switch, get_new_model and get_event_dict.                         *)
(*                                                                         *)
(* The weights are Python floats (IEEE-754 binary64).  Their arithmetic is *)
(* modelled bit for bit: a float is a record [neg, m, e] of value          *)
(* (-1)^neg * m * 2^e whose mantissa m is 0 or has exactly 53 bits, and    *)
(* every operation rounds to nearest, ties to even.  Mantissas do not fit  *)
(* a 32-bit integer, so they are little-endian sequences of 20-bit limbs.  *)
(***************************************************************************)
EXTENDS Integers, Sequences, FiniteSets, TLC

----------------------------------------------------------------------------
(* Natural numbers of arbitrary size: little-endian limbs, no high zero.   *)

Base == 2^20
MantBits == 53

Max(a, b) == IF a >= b THEN a ELSE b
Min(a, b) == IF a <= b THEN a ELSE b

RECURSIVE Trim(_)
Trim(a) ==
    IF a = <<>> THEN a
    ELSE IF a[Len(a)] = 0 THEN Trim(SubSeq(a, 1, Len(a) - 1)) ELSE a

Limb(a, i) == IF i >= 1 /\ i <= Len(a) THEN a[i] ELSE 0

BFromInt(n) == Trim(<<n % Base, n \div Base>>)

RECURSIVE BAddFrom(_, _, _, _)
BAddFrom(a, b, i, c) ==
    IF i > Max(Len(a), Len(b))
    THEN (IF c = 0 THEN <<>> ELSE <<c>>)
    ELSE LET s == Limb(a, i) + Limb(b, i) + c
         IN  <<s % Base>> \o BAddFrom(a, b, i + 1, s \div Base)

BAdd(a, b) == BAddFrom(a, b, 1, 0)

RECURSIVE BSubFrom(_, _, _, _)
BSubFrom(a, b, i, c) ==
    IF i > Len(a) THEN <<>>
    ELSE LET s == Limb(a, i) - Limb(b, i) - c
         IN  IF s < 0 THEN <<s + Base>> \o BSubFrom(a, b, i + 1, 1)
                      ELSE <<s>> \o BSubFrom(a, b, i + 1, 0)

\* a - b for a >= b
BSub(a, b) == Trim(BSubFrom(a, b, 1, 0))

RECURSIVE BCmpAt(_, _, _)
BCmpAt(a, b, i) ==
    IF i = 0 THEN 0
    ELSE IF a[i] < b[i] THEN -1
    ELSE IF a[i] > b[i] THEN 1
    ELSE BCmpAt(a, b, i - 1)

\* -1, 0, 1 as a < b, a = b, a > b
BCmp(a, b) ==
    IF Len(a) < Len(b) THEN -1
    ELSE IF Len(a) > Len(b) THEN 1
    ELSE BCmpAt(a, b, Len(a))

\* a * 2^k
BShl(a, k) ==
    LET q == k \div 20
        r == k % 20
        lo == 2^(20 - r)
        part == [i \in 1..(Len(a) + 1) |->
                    (Limb(a, i) % lo) * 2^r + (Limb(a, i - 1) \div lo)]
    IN  IF a = <<>> THEN a ELSE Trim([i \in 1..q |-> 0] \o part)

\* floor(a / 2^k)
BShr(a, k) ==
    LET q == k \div 20
        r == k % 20
        d == IF q >= Len(a) THEN <<>> ELSE SubSeq(a, q + 1, Len(a))
    IN  Trim([i \in 1..Len(d) |->
                (d[i] \div 2^r) + (Limb(d, i + 1) % 2^r) * 2^(20 - r)])

BitLen(a) ==
    IF a = <<>> THEN 0
    ELSE 20 * (Len(a) - 1)
         + (CHOOSE n \in 1..20 : a[Len(a)] < 2^n /\ a[Len(a)] >= 2^(n - 1))

BOdd(a) == Limb(a, 1) % 2 = 1

RECURSIVE BMulFrom(_, _, _, _)
BMulFrom(a, c, i, carry) ==
    IF i > Len(a) THEN (IF carry = 0 THEN <<>> ELSE <<carry>>)
    ELSE LET p == a[i] * c + carry
         IN  <<p % Base>> \o BMulFrom(a, c, i + 1, p \div Base)

\* a * c for a small c (c < 2^10)
BMulSmall(a, c) == Trim(BMulFrom(a, c, 1, 0))

----------------------------------------------------------------------------
(* binary64                                                                *)

FZero == [neg |-> FALSE, m |-> <<>>, e |-> 0]

\* RoundF, last step: the mantissa q1 may have grown to 54 bits
RoundCarry(neg, q1, e) ==
    IF BitLen(q1) > MantBits
    THEN [neg |-> neg, m |-> BShr(q1, 1), e |-> e + 1]
    ELSE [neg |-> neg, m |-> q1, e |-> e]

\* RoundF for a 53-bit q and c = -1, 0, 1 as the dropped bits are below,
\* at or above half of the last kept bit
RoundUp(neg, q, e, c, sticky) ==
    RoundCarry(neg,
               IF c = 1 \/ (c = 0 /\ (sticky \/ BOdd(q))) THEN BAdd(q, <<1>>) ELSE q,
               e)

\* RoundF for n of more than 53 bits: q is n without its s low bits
RoundCut(neg, n, e, sticky, s, q) ==
    RoundUp(neg, q, e + s, BCmp(BSub(n, BShl(q, s)), BShl(<<1>>, s - 1)), sticky)

\* RoundF for n of len bits
RoundLen(neg, n, e, sticky, len) ==
    IF len = 0 THEN FZero
    ELSE IF len <= MantBits
    THEN [neg |-> neg, m |-> BShl(n, MantBits - len), e |-> e - (MantBits - len)]
    ELSE RoundCut(neg, n, e, sticky, len - MantBits, BShr(n, len - MantBits))

\* The float nearest to n * 2^e (plus a positive fraction of the last bit
\* of n when sticky), ties to even.
RoundF(neg, n, e, sticky) == RoundLen(neg, n, e, sticky, BitLen(n))

FFromInt(n) == RoundF(FALSE, BFromInt(n), 0, FALSE)

FNeg(a) == IF a.m = <<>> THEN a ELSE [a EXCEPT !.neg = ~a.neg]

\* the sum of (-1)^na * x * 2^e and (-1)^nb * y * 2^e
AddAligned(na, nb, x, y, e) ==
    RoundF(IF na = nb \/ BCmp(x, y) = 1 THEN na ELSE nb,
           IF na = nb THEN BAdd(x, y)
           ELSE IF BCmp(x, y) = 1 THEN BSub(x, y) ELSE BSub(y, x),
           e, FALSE)

\* a + b
FAdd(a, b) ==
    IF a.m = <<>> THEN b
    ELSE IF b.m = <<>> THEN a
    ELSE AddAligned(a.neg, b.neg,
                    BShl(a.m, a.e - Min(a.e, b.e)), BShl(b.m, b.e - Min(a.e, b.e)),
                    Min(a.e, b.e))

\* a - b
FSub(a, b) == FAdd(a, FNeg(b))

\* -1, 0, 1 as |a| < |b|, |a| = |b|, |a| > |b|
FCmpMag(a, b) ==
    IF a.m = <<>> /\ b.m = <<>> THEN 0
    ELSE IF a.m = <<>> THEN -1
    ELSE IF b.m = <<>> THEN 1
    ELSE IF a.e < b.e THEN -1
    ELSE IF a.e > b.e THEN 1
    ELSE BCmp(a.m, b.m)

\* a < b
FLess(a, b) ==
    IF a.neg /\ ~b.neg THEN TRUE
    ELSE IF ~a.neg /\ b.neg THEN FALSE
    ELSE IF a.neg THEN FCmpMag(a, b) = 1
    ELSE FCmpMag(a, b) = -1

\* a <= b
FLeq(a, b) == ~FLess(b, a)

\* the next [q, r] of the long division by d, for the base-32 digit t
DivTake(q, r32, d, t) ==
    [q |-> BAdd(BMulSmall(q, 32), BFromInt(t)), r |-> BSub(r32, BMulSmall(d, t))]

\* one more base-32 digit of the quotient q, for the remainder r32 = 32 * r;
\* the top limbs bracket the digit
DivDigit(q, r32, d) ==
    DivTake(q, r32, d,
            CHOOSE t \in (Limb(r32, 3) \div (d[3] + 1))..((Limb(r32, 3) + 1) \div d[3]) :
                /\ BCmp(BMulSmall(d, t), r32) <= 0
                /\ BCmp(BMulSmall(d, t + 1), r32) = 1)

DivStep(p, d) == DivDigit(p.q, BMulSmall(p.r, 32), d)

RECURSIVE DivDigits(_, _, _)
\* [q, r]: floor(a * 32^k / d) and the remainder, for a < d and a 53-bit d
DivDigits(a, d, k) ==
    IF k = 0 THEN [q |-> <<>>, r |-> a]
    ELSE CHOOSE next \in {DivStep(p, d) : p \in {DivDigits(a, d, k - 1)}} : TRUE

\* a / b, where first is 1 or 0 as a.m >= b.m and p the 55 next quotient bits
DivRound(a, b, first, p) ==
    RoundF(a.neg # b.neg, BAdd(BShl(first, 55), p.q), a.e - b.e - 55, p.r # <<>>)

\* a / b for b # 0
FDiv(a, b) ==
    IF a.m = <<>> THEN FZero
    ELSE IF BCmp(a.m, b.m) >= 0
    THEN DivRound(a, b, <<1>>, DivDigits(BSub(a.m, b.m), b.m, 11))
    ELSE DivRound(a, b, <<>>, DivDigits(a.m, b.m, 11))

\* a * c for the float of a small positive integer c
FMulInt(a, c) == RoundF(a.neg, BMulSmall(a.m, c), a.e, FALSE)

\* int(a) for 0 <= a < 2^20: truncation
FTrunc(a) ==
    IF a.m = <<>> THEN 0
    ELSE Limb(IF a.e >= 0 THEN BShl(a.m, a.e) ELSE BShr(a.m, 0 - a.e), 1)

FOne == FFromInt(1)
F100 == FFromInt(100)

\* the float a decimal literal num/den denotes (den a power of ten)
Dec(num, den) == FDiv(FFromInt(num), FFromInt(den))

\* 0.1, the minimum sharpness of update_weights
MinSharpness == Dec(1, 10)

----------------------------------------------------------------------------
(* Bounds of the model                                                     *)

\* models in the pool (len(data_config["files"]))
MaxModels == 3
\* periods of a run in probabilistic mode
MaxRandomPeriods == 5
\* periods of a run in transition-map mode
MaxPeriods == 16
\* largest min_model_len
MaxMinLen == 1
\* largest duration of a transition-map entry
MaxDuration == 11

----------------------------------------------------------------------------
(* class Switch(Enum)                                                      *)

Switch == {"NONE", "GRADUAL", "ABRUPT", "PREDEFINED"}

\* Switch.<name>.value
SwitchValue(kind) ==
    CASE kind = "NONE" -> -1
      [] kind = "GRADUAL" -> 0
      [] kind = "ABRUPT" -> 1
      [] kind = "PREDEFINED" -> 2

\* None; an optional value is <<>> or <<v>>
None == <<>>

----------------------------------------------------------------------------
(* Pure helpers.  A weight pair w is <<w[0], w[1]>> of the source, that is *)
(* w[1] here is the weight of the current model and w[2] of the new one.   *)

\* reset_weights(): w = (1, 0)
reset_weights == <<FOne, FZero>>

\* w = (w[0] - incr, w[1] + incr)
MoveWeights(w, incr) == <<FSub(w[1], incr), FAdd(w[2], incr)>>

\* (0 if w[0] <= 0 else w[0], 1 if w[1] >= 1 else w[1])
ClampWeights(w) ==
    <<IF FLeq(w[1], FZero) THEN FZero ELSE w[1],
      IF FLeq(FOne, w[2]) THEN FOne ELSE w[2]>>

\* update_weights with the floor applied to non-positive values only
update_weights_floor_nonpositive(w, switch_sharpness) ==
    ClampWeights(MoveWeights(w, IF FLeq(switch_sharpness, FZero)
                                THEN MinSharpness ELSE switch_sharpness))

\* update_weights with every sharpness replaced by the floor
update_weights_floor_only(w, switch_sharpness) ==
    ClampWeights(MoveWeights(w, MinSharpness))

\* update_weights without the floor
update_weights_no_floor(w, switch_sharpness) ==
    ClampWeights(MoveWeights(w, switch_sharpness))

update_weights(w, switch_sharpness) ==
    ClampWeights(MoveWeights(w, IF FLess(switch_sharpness, MinSharpness)
                                THEN MinSharpness ELSE switch_sharpness))

\* 0 < w[1] < 1 of the source: a blend is in progress
Blending(w) == FLess(FZero, w[2]) /\ FLess(w[2], FOne)

\* gutils.get_sigmoid(): a table of 101 floats in [0, 1], strictly
\* increasing in its index (here the smoothstep 3x^2 - 2x^3 at x = i/100)
get_sigmoid ==
    [i \in 0..100 |->
        FDiv(FDiv(FFromInt(i * i * (300 - 2 * i)), FFromInt(1000)), FFromInt(1000))]

SigmoidAt(idx) == <<get_sigmoid[idx], FSub(FOne, get_sigmoid[idx])>>

\* (get_sigmoid()[int(w[0]*100)], 1 - get_sigmoid()[int(w[0]*100)])
SigmoidPair(w) == SigmoidAt(FTrunc(FMulInt(w[1], 100)))

\* the values random.random() returns, in hundredths: some of [0, 1)
RandomDraws == {0, 50, 99}

\* the kinds random_switch can return; probabilities are in hundredths
random_switch(switch_prob, abrupt_prob) ==
    { IF r[1] < switch_prob
      THEN (IF r[2] < abrupt_prob THEN "ABRUPT" ELSE "GRADUAL")
      ELSE "NONE" : r \in RandomDraws \X RandomDraws }

\* the return of start_switch for no switch
NoneFound(conf) ==
    [new_switch_type |-> "NONE",
     switch_shp |-> <<conf.gradual_drift_sharpness, conf.abrupt_drift_sharpness,
                      conf.defined_drift_sharpness>>,
     conf |-> conf, switch_to |-> None]

\* the return of start_switch for a map entry at this period
Predefined(conf, dds, to_mdl) ==
    [new_switch_type |-> "PREDEFINED",
     switch_shp |-> <<conf.gradual_drift_sharpness, conf.abrupt_drift_sharpness,
                      <<dds>>>>,
     conf |-> [conf EXCEPT !.defined_drift_sharpness = <<dds>>],
     switch_to |-> <<to_mdl>>]

\* ScanMap taking an entry whose iteration is the period or an earlier one
ScanMapLate(counter, conf, i) ==
    IF i > Len(conf.transition_map) THEN NoneFound(conf)
    ELSE IF counter >= conf.transition_map[i][1]
    THEN Predefined(conf,
                    FDiv(FDiv(F100, FFromInt(conf.transition_map[i][2] + 1)), F100),
                    conf.transition_map[i][3])
    ELSE NoneFound(conf)

RECURSIVE ScanMap(_, _, _)
\* the for loop of start_switch from entry i = (it, length, to_mdl) on, and
\* the lines after it
ScanMap(counter, conf, i) ==
    IF i > Len(conf.transition_map) THEN NoneFound(conf)
    ELSE IF counter = conf.transition_map[i][1]
    THEN Predefined(conf,
                    FDiv(FDiv(F100, FFromInt(conf.transition_map[i][2] + 1)), F100),
                    conf.transition_map[i][3])
    ELSE IF counter < conf.transition_map[i][1] THEN NoneFound(conf)
    ELSE ScanMap(counter, conf, i + 1)

\* the returns of start_switch in probabilistic mode
RandomStart(conf) ==
    {[new_switch_type |-> k,
      switch_shp |-> <<conf.gradual_drift_sharpness, conf.abrupt_drift_sharpness,
                       conf.defined_drift_sharpness>>,
      conf |-> conf, switch_to |-> None] :
        k \in random_switch(conf.switching_probability, conf.abrupt_drift_prob)}

\* the results start_switch can return: (new_switch_type, switch_shp, conf,
\* switch_to); it first sets conf['defined_drift_sharpness'] = None
StartWith(counter, conf) ==
    IF conf.use_transition_map THEN {ScanMap(counter, conf, 1)} ELSE RandomStart(conf)

start_switch(counter, conf) ==
    StartWith(counter, [conf EXCEPT !.defined_drift_sharpness = None])

\* get_new_model without the redraw
get_new_model_any(current_id, config_len) == 1..config_len

\* the ids get_new_model can return: it draws from 1..len(config) and draws
\* again while the draw is current_id; with no other id it never returns
get_new_model(current_id, config_len) ==
    {new_model_id \in 1..config_len : new_model_id # current_id}

\* Sharpness with the index 0 whatever the kind
SharpnessGradual(switch_shp, switch_type) == switch_shp[1]

\* switch_shp[switch_type.value]
Sharpness(switch_shp, switch_type) ==
    IF switch_type = "PREDEFINED" THEN switch_shp[3][1]
    ELSE switch_shp[SwitchValue(switch_type) + 1]

\* the 'cur_switch' label: the name, and for PREDEFINED the name joined with
\* int(100/(defined_drift_sharpness*100)) - 1
CurSwitchLabel(switch_type, conf) ==
    IF switch_type # "PREDEFINED" THEN <<switch_type>>
    ELSE <<switch_type,
           FTrunc(FDiv(F100, FMulInt(conf.defined_drift_sharpness[1], 100))) - 1>>

get_event_dict(counter, current_model, new_model, new_switch_type, switch_type, conf, w) ==
    [n_row            |-> counter,
     new_switch       |-> new_switch_type,
     cur_switch       |-> CurSwitchLabel(switch_type, conf),
     weights          |-> w,
     current_model_id |-> current_model,
     new_model_id     |-> IF new_model = None THEN -1 ELSE new_model[1]]

----------------------------------------------------------------------------
(* switching_process                                                       *)

VARIABLES
    tool_params,    \* the params of config.yaml; start_switch writes to it
    n_files,        \* len(data_config["files"]): the models are 1..n_files
    pc,             \* "loop", "returned", or the exception that ended the run
    it_counter,     \* the period about to run
    switch_type, switch_shp, current_model, new_model,
    ts, rc, w, sig_w, state_counter

vars == <<tool_params, n_files, pc, it_counter, switch_type, switch_shp,
          current_model, new_model, ts, rc, w, sig_w, state_counter>>

\* the sharpness values of the configurations: 0.05, 0.2, 0.5, 0.7, 1.0, 1.5
Sharp005 == Dec(5, 100)
Sharp02 == Dec(2, 10)
Sharp05 == Dec(5, 10)
Sharp07 == Dec(7, 10)
Sharp10 == Dec(1, 1)
Sharp15 == Dec(15, 10)

\* the sharpness pairs (gradual, abrupt) of the probabilistic configurations
RandomSharpness ==
    { <<Sharp05, Sharp10>>, <<Sharp02, Sharp07>>, <<Sharp005, Sharp15>> }

\* switching_probability and abrupt_drift_prob, in hundredths
RandomProbabilities == { <<100, 0>>, <<50, 50>> }

RandomConfigs ==
    { [periods                 |-> p,
       switching_probability   |-> pr[1],
       abrupt_drift_prob       |-> pr[2],
       gradual_drift_sharpness |-> sh[1],
       abrupt_drift_sharpness  |-> sh[2],
       min_model_len           |-> ml,
       w_func                  |-> f,
       use_transition_map      |-> FALSE,
       transition_map          |-> <<>>,
       defined_drift_sharpness |-> None] :
         p \in {1, 5, MaxRandomPeriods}, pr \in RandomProbabilities,
         sh \in RandomSharpness, ml \in 0..MaxMinLen, f \in {"linear", "sig"} }

\* transition maps: triples (iteration, duration, target model), strictly
\* increasing in iteration
TransitionMaps ==
    { <<<<it, d, to>>>> : it \in {0, 1, 10}, d \in 0..MaxDuration, to \in 1..MaxModels }
    \cup
    { <<<<1, d1, 2>>, <<it2, d2, to2>>>> :
         d1 \in {0, 2, 4}, it2 \in {2, 4, 8}, d2 \in {0, 1, 4, 9}, to2 \in {1, 3} }

MapConfigs ==
    { [periods                 |-> p,
       switching_probability   |-> 0,
       abrupt_drift_prob       |-> 0,
       gradual_drift_sharpness |-> Sharp05,
       abrupt_drift_sharpness  |-> Sharp10,
       min_model_len           |-> ml,
       w_func                  |-> f,
       use_transition_map      |-> TRUE,
       transition_map          |-> tm,
       defined_drift_sharpness |-> None] :
         p \in {MaxPeriods - 1, MaxPeriods}, ml \in 0..MaxMinLen,
         f \in {"linear", "sig"}, tm \in TransitionMaps }

Init ==
    /\ \/ tool_params \in RandomConfigs /\ n_files \in 1..MaxModels
       \/ tool_params \in MapConfigs /\ n_files = MaxModels
    /\ pc = "loop"
    /\ it_counter = 0
    /\ switch_type = "NONE"
    /\ switch_shp = None
    /\ current_model = 1
    /\ new_model = None
    /\ ts = <<>>
    /\ rc = <<>>
    /\ w = reset_weights
    /\ sig_w = reset_weights
    /\ state_counter = 0

use_sig_w == tool_params.w_func = "sig"

\* SwitchGuard without its test of a blend in progress
SwitchGuardNoBlend == state_counter <= tool_params.min_model_len

\* SwitchGuard without its test of the model's age
SwitchGuardNoDwell == Blending(w)

\* SwitchGuard with < for <=
SwitchGuardStrict == Blending(w) \/ state_counter < tool_params.min_model_len

\* no new switch while one is in progress or the model is too young
SwitchGuard == Blending(w) \/ state_counter <= tool_params.min_model_len

no_switch ==
    [new_switch_type |-> "NONE", switch_shp |-> None, conf |-> tool_params,
     switch_to |-> None]

\* new_switch_type, new_switch_shp, tool_params, switch_to of this period
Decisions ==
    IF SwitchGuard THEN {no_switch} ELSE start_switch(it_counter, tool_params)

\* the models step 2 can select for the decision d
Selections(d) ==
    IF SwitchValue(d.new_switch_type) < 0 THEN {None}
    ELSE IF d.switch_to = None
    THEN {<<m>> : m \in get_new_model(current_model, n_files)}
    ELSE {d.switch_to}

\* Started with the weights left as they were before the switch
StartedUnadvanced(d, mdl, w1) ==
    [switch_type |-> d.new_switch_type, switch_shp |-> d.switch_shp,
     new_model |-> mdl, w |-> reset_weights, sig_w |-> reset_weights]

\* the locals after a switch started with weights w1
Started(d, mdl, w1) ==
    [switch_type |-> d.new_switch_type, switch_shp |-> d.switch_shp,
     new_model |-> mdl, w |-> w1, sig_w |-> SigmoidPair(w1)]

\* the locals after step 2, where the decision d selected the model mdl
AfterDecision(d, mdl) ==
    IF SwitchValue(d.new_switch_type) >= 0
    THEN Started(d, mdl, update_weights(reset_weights,
                                        Sharpness(d.switch_shp, d.new_switch_type)))
    ELSE [switch_type |-> switch_type, switch_shp |-> switch_shp,
          new_model |-> new_model, w |-> w, sig_w |-> sig_w]

\* the pair step 3 records and asserts on
Recorded(s) == IF use_sig_w THEN s.sig_w ELSE s.w

\* get_event_dict raises TypeError on None * 100
LabelFails(s, conf) ==
    s.switch_type = "PREDEFINED" /\ conf.defined_drift_sharpness = None

\* the assert of step 3
AssertHolds(s) == FAdd(Recorded(s)[1], Recorded(s)[2]) = FOne

Event(d, s) ==
    get_event_dict(it_counter, current_model, s.new_model, d.new_switch_type,
                   s.switch_type, d.conf, Recorded(s))

\* step 4 while switching: s the locals after step 2, w2 the weights updated
BlendStep(s, w2) ==
    /\ ts' = Append(ts, [old |-> current_model, new |-> s.new_model,
                         weights |-> Recorded(s)])
    /\ IF w2[2] = FOne
       THEN /\ current_model' = s.new_model[1]
            /\ new_model' = None
            /\ state_counter' = 0 + 1
            /\ w' = reset_weights
            /\ sig_w' = reset_weights
            /\ switch_type' = "NONE"
       ELSE /\ w' = w2
            /\ sig_w' = SigmoidPair(w2)
            /\ state_counter' = state_counter + 1
            /\ switch_type' = s.switch_type
            /\ new_model' = s.new_model
            /\ UNCHANGED current_model

\* SteadyStep without its append to ts
SteadyStepNoAppend(s) ==
    /\ ts' = ts
    /\ state_counter' = state_counter + 1
    /\ w' = s.w
    /\ sig_w' = s.sig_w
    /\ switch_type' = s.switch_type
    /\ new_model' = s.new_model
    /\ UNCHANGED current_model

\* step 4 otherwise
SteadyStep(s) ==
    /\ ts' = Append(ts, [old |-> current_model, new |-> None, weights |-> None])
    /\ state_counter' = state_counter + 1
    /\ w' = s.w
    /\ sig_w' = s.sig_w
    /\ switch_type' = s.switch_type
    /\ new_model' = s.new_model
    /\ UNCHANGED current_model

\* an iteration that reaches step 4, s the locals after step 2
PeriodStep(d, s) ==
    /\ tool_params' = d.conf
    /\ rc' = Append(rc, Event(d, s))
    /\ switch_shp' = s.switch_shp
    /\ IF Blending(s.w)
       THEN \E w2 \in {update_weights(s.w, Sharpness(s.switch_shp, s.switch_type))} :
                BlendStep(s, w2)
       ELSE SteadyStep(s)
    /\ it_counter' = it_counter + 1
    /\ UNCHANGED <<pc, n_files>>

\* an iteration that ends at the assert of step 3, after the event is appended
AssertStep(d, s) ==
    /\ tool_params' = d.conf
    /\ rc' = Append(rc, Event(d, s))
    /\ switch_type' = s.switch_type
    /\ switch_shp' = s.switch_shp
    /\ new_model' = s.new_model
    /\ w' = s.w
    /\ sig_w' = s.sig_w
    /\ pc' = "AssertionError"
    /\ UNCHANGED <<n_files, it_counter, current_model, ts, state_counter>>

\* an iteration that ends in get_event_dict, before the event is appended
LabelStep(d, s) ==
    /\ tool_params' = d.conf
    /\ switch_type' = s.switch_type
    /\ switch_shp' = s.switch_shp
    /\ new_model' = s.new_model
    /\ w' = s.w
    /\ sig_w' = s.sig_w
    /\ pc' = "TypeError"
    /\ UNCHANGED <<n_files, it_counter, current_model, ts, rc, state_counter>>

Running == pc = "loop" /\ it_counter < tool_params.periods

\* one iteration of the loop
Period ==
    /\ Running
    /\ \E d \in Decisions : \E mdl \in Selections(d) :
         \E s \in {AfterDecision(d, mdl)} :
            IF LabelFails(s, d.conf) THEN LabelStep(d, s)
            ELSE IF AssertHolds(s) THEN PeriodStep(d, s)
            ELSE AssertStep(d, s)

\* the iteration ends in get_new_model, which recurses without end
RecursionError ==
    /\ Running
    /\ \E d \in Decisions :
         /\ SwitchValue(d.new_switch_type) >= 0
         /\ Selections(d) = {}
         /\ tool_params' = d.conf
         /\ switch_type' = d.new_switch_type
         /\ switch_shp' = d.switch_shp
         /\ pc' = "RecursionError"
         /\ UNCHANGED <<n_files, it_counter, current_model, new_model, ts, rc,
                        w, sig_w, state_counter>>

\* the loop is over: return pd.Series(ts), pd.DataFrame(rc)
Return ==
    /\ pc = "loop"
    /\ it_counter = tool_params.periods
    /\ pc' = "returned"
    /\ UNCHANGED <<tool_params, n_files, it_counter, switch_type, switch_shp,
                   current_model, new_model, ts, rc, w, sig_w, state_counter>>

Next == Period \/ RecursionError \/ Return

Spec == Init /\ [][Next]_vars

----------------------------------------------------------------------------
(* Properties                                                              *)

\* the event of the last period that recorded one
LastEvent == rc[Len(rc)]

\* this step is an iteration that recorded an event
Records == pc = "loop" /\ Len(rc') = Len(rc) + 1

InUnit(x) == FLeq(FZero, x) /\ FLeq(x, FOne)

\* C1: the weight pair recorded in every event (w, or sig_w under 'sig')
\* sums to 1 and has both components in [0, 1].
WeightConservation ==
    \A k \in 1..Len(rc) :
        /\ FAdd(rc[k].weights[1], rc[k].weights[2]) = FOne
        /\ InUnit(rc[k].weights[1])
        /\ InUnit(rc[k].weights[2])

\* C2: a period that begins with 0 < w_new < 1 proposes no switch, and keeps
\* the incoming model, the active kind and the sharpness in use.
NoReentrantSwitch ==
    [][(Records /\ Blending(w)) =>
          /\ LastEvent'.new_switch = "NONE"
          /\ LastEvent'.new_model_id = new_model[1]
          /\ LastEvent'.cur_switch[1] = switch_type
          /\ switch_shp' = switch_shp
          /\ tool_params' = tool_params
          /\ \/ new_model' = new_model /\ switch_type' = switch_type
             \/ /\ new_model' = None /\ switch_type' = "NONE"
                /\ current_model' = new_model[1]]_vars

\* a period ran during a blend although every draw would have switched
NoReentrantWitness ==
    /\ tool_params.switching_probability = 100
    /\ tool_params.min_model_len = 0
    /\ Len(rc) >= 2
    /\ rc[Len(rc) - 1].new_switch = "GRADUAL"
    /\ Blending(rc[Len(rc) - 1].weights)
    /\ LastEvent.new_switch = "NONE"
    /\ LastEvent.new_model_id = rc[Len(rc) - 1].new_model_id

\* this step completes a switch: the incoming model it recorded is cleared
Completes == Records /\ LastEvent'.new_model_id # -1 /\ new_model' = None

\* C3: state_counter is 0 at the start, 1 after the period that completes a
\* switch and one more after every other period, and no switch starts in a
\* period that begins with state_counter <= min_model_len.
MinimumDwell ==
    /\ state_counter = 0
    /\ [][Records =>
            /\ state_counter <= tool_params.min_model_len
                  => LastEvent'.new_switch = "NONE"
            /\ pc' = "loop"
                  => state_counter' = IF Completes THEN 1 ELSE state_counter + 1]_vars

\* with every draw switching and min_model_len = 1: a switch that completed
\* in period 2, no switch in period 3
MinimumDwellWitness ==
    /\ tool_params.switching_probability = 100
    /\ tool_params.min_model_len = 1
    /\ Len(rc) = 4
    /\ rc[3].new_switch = "GRADUAL"
    /\ rc[4].current_model_id = rc[3].new_model_id
    /\ rc[4].new_switch = "NONE"
    /\ state_counter = 2

\* the state of STEADY right after a switch completed
ResetToSteady ==
    /\ w' = reset_weights
    /\ sig_w' = reset_weights
    /\ switch_type' = "NONE"
    /\ new_model' = None
    /\ state_counter' = 1
    /\ current_model' = LastEvent'.new_model_id

\* C4: w_new never decreases while a switch is active, and no period ends
\* with w_new = 1: the period in which it reaches 1 resets to STEADY.
CompletionMonotonicity ==
    [][(Records /\ pc' = "loop") =>
          /\ w'[2] # FOne
          /\ (LastEvent'.new_model_id # -1) =>
                \/ FLeq(w[2], w'[2]) /\ new_model' # None
                \/ ResetToSteady]_vars

\* C5: in probabilistic mode get_new_model does not return current_id, and
\* no event has new_model_id = current_model_id.
ModelExclusion ==
    ~tool_params.use_transition_map =>
        /\ current_model \notin get_new_model(current_model, n_files)
        /\ \A k \in 1..Len(rc) : rc[k].new_model_id # rc[k].current_model_id

\* a switch started in probabilistic mode
ModelExclusionWitness ==
    /\ ~tool_params.use_transition_map
    /\ Len(rc) >= 1
    /\ LastEvent.new_switch # "NONE"
    /\ LastEvent.new_model_id # -1

\* the run has ended, normally or with an exception
Ended == pc # "loop"

\* C6: with the transition map entry (10, 4, 3) and enough periods the run
\* returns, period 9 records NONE, a PREDEFINED switch to model 3 starts at
\* period 10, and by period 14 model 3 is the current model.
TransitionMapFidelity ==
    (/\ tool_params.use_transition_map
     /\ tool_params.transition_map = <<<<10, 4, 3>>>>
     /\ tool_params.periods >= 15
     /\ Ended) =>
        /\ pc = "returned"
        /\ rc[10].new_switch = "NONE"
        /\ rc[11].new_switch = "PREDEFINED"
        /\ rc[11].cur_switch[1] = "PREDEFINED"
        /\ rc[11].new_model_id = 3
        /\ rc[15].current_model_id = 3
        /\ rc[15].cur_switch = <<"NONE">>

\* the configuration of the worked scenario: a pool of 3 models, 5 periods,
\* every draw switching gradually, sharpness 0.5, linear blend
Scenario ==
    /\ ~tool_params.use_transition_map
    /\ n_files = 3
    /\ tool_params.periods = 5
    /\ tool_params.switching_probability = 100
    /\ tool_params.abrupt_drift_prob = 0
    /\ tool_params.min_model_len = 0
    /\ tool_params.gradual_drift_sharpness = Sharp05
    /\ tool_params.w_func = "linear"

\* C7 as stated: in the scenario the GRADUAL switch starts at period 0, whose
\* event records the weights (0.5, 0.5).
ScenarioStartsAtZero ==
    (Scenario /\ Len(rc) >= 1) =>
        /\ rc[1].new_switch = "GRADUAL"
        /\ rc[1].weights = <<Sharp05, Sharp05>>

\* C7: in the scenario period 0 proposes no switch and records (1, 0), the
\* GRADUAL switch starts at period 1 and records (0.5, 0.5), and the second
\* advance, at the end of period 1, reaches (0, 1) and resets to (1, 0).
ScenarioStartsAtOne ==
    Scenario =>
        /\ update_weights(reset_weights, Sharp05) = <<Sharp05, Sharp05>>
        /\ update_weights(<<Sharp05, Sharp05>>, Sharp05) = <<FZero, FOne>>
        /\ Len(rc) >= 1 =>
              /\ rc[1].new_switch = "NONE"
              /\ rc[1].weights = reset_weights
        /\ Len(rc) >= 2 =>
              /\ rc[2].new_switch = "GRADUAL"
              /\ rc[2].weights = <<Sharp05, Sharp05>>
              /\ ts[2].new = <<rc[2].new_model_id>>
              /\ pc = "loop" => w = reset_weights

ScenarioStartsAtOneWitness ==
    /\ Scenario
    /\ Len(rc) = 2
    /\ current_model = rc[2].new_model_id

\* the periods after which current_model_id has another value
ChangeSet ==
    {k \in 1..(Len(rc) - 1) : rc[k].current_model_id # rc[k + 1].current_model_id}

\* C8 as stated: over the scenario's 5 events current_model_id changes
\* value exactly once.
ScenarioChangesOnce ==
    (Scenario /\ pc = "returned") => Cardinality(ChangeSet) = 1

\* C8: over the scenario's 5 events current_model_id changes value exactly
\* three times, after the events of periods 1, 2 and 3.
ScenarioChangesThrice ==
    (Scenario /\ pc = "returned") => ChangeSet = {2, 3, 4}

ScenarioChangesThriceWitness ==
    /\ Scenario
    /\ pc = "returned"
    /\ Len(rc) = 5

\* the transition map entry of a period
EntryAt(period) ==
    CHOOSE i \in 1..Len(tool_params.transition_map) :
        tool_params.transition_map[i][1] = period

\* the PREDEFINED switch started in event k blends the output of exactly the
\* n periods from its own on, after which its target is the current model
BlendCovers(k, n, target) ==
    /\ \A j \in k..(k + n - 1) : ts[j].new = <<target>>
    /\ ts[k + n].old = target
    /\ rc[k + n].current_model_id = target
    /\ ts[k + n].new = None \/ rc[k + n].new_switch # "NONE"

\* the PREDEFINED switches that started, as <<event, duration, target>>
PredefinedStarts ==
    {<<k, tool_params.transition_map[EntryAt(k - 1)][2],
          tool_params.transition_map[EntryAt(k - 1)][3]>> :
        k \in {j \in 1..Len(rc) : rc[j].new_switch = "PREDEFINED"}}

Covered(duration, w_func) ==
    IF duration >= 9 THEN 10
    ELSE IF duration = 0 THEN 0
    ELSE IF w_func = "sig" \/ duration \in {1, 2, 3, 7} THEN duration
    ELSE -1

PoolOfOneRejected ==
    (~tool_params.use_transition_map /\ n_files = 1) =>
        /\ it_counter = 0
        /\ ts = <<>>
        /\ rc = <<>>
        /\ pc # "RecursionError"

----------------------------------------------------------------------------
(* update_weights on its own: repeated calls from reset_weights()          *)

\* the number of calls
MaxCalls == 12

\* the sharpness 1/n of a schedule of n calls
Inverses == [n \in 1..10 |-> Dec(1, n)]

\* sharpness values below 0.1, among them 0 and negative ones
BelowFloor ==
    {Sharp005, Dec(1, 100), Dec(99, 1000), FZero, FNeg(Sharp05), FNeg(Dec(1, 100))}

Sharpnesses == {Inverses[n] : n \in 1..10} \cup BelowFloor \cup {Sharp07, Sharp15}

\* w = reset_weights() and a GRADUAL switch of some sharpness
WeightInit ==
    /\ \E s \in Sharpnesses :
          /\ switch_shp = <<s, Sharp10, None>>
          /\ tool_params = [gradual_drift_sharpness |-> s,
                            abrupt_drift_sharpness  |-> Sharp10,
                            defined_drift_sharpness |-> None]
    /\ switch_type = "GRADUAL"
    /\ pc = "update_weights"
    /\ it_counter = 0
    /\ n_files = MaxModels
    /\ current_model = 1
    /\ new_model = <<2>>
    /\ ts = <<>>
    /\ rc = <<>>
    /\ w = reset_weights
    /\ sig_w = reset_weights
    /\ state_counter = 0

\* w = update_weights(w, switch_shp[switch_type.value])
Advance ==
    /\ pc = "update_weights"
    /\ it_counter < MaxCalls
    /\ w' = update_weights(w, Sharpness(switch_shp, switch_type))
    /\ it_counter' = it_counter + 1
    /\ UNCHANGED <<tool_params, n_files, pc, switch_type, switch_shp,
                   current_model, new_model, ts, rc, sig_w, state_counter>>

WeightSpec == WeightInit /\ [][Advance]_vars

\* C12: for every weight pair and every sharpness below 0.1, update_weights
\* returns the pair it returns for the sharpness 0.1.
SharpnessFloor ==
    \A s \in BelowFloor : update_weights(w, s) = update_weights(w, MinSharpness)

\* a call with the sharpness 0.05 on a pair inside a blend has returned
SharpnessFloorWitness ==
    /\ switch_shp[1] = Sharp005
    /\ it_counter = 3
    /\ Blending(w)

\* the n of the schedule in progress
ScheduleN == {n \in 1..10 : Inverses[n] = switch_shp[1]}

\* the tolerance 1e-9 of the weight pair
Tolerance == Dec(1, 1000000000)

Near(a, b) == FLeq([FSub(a, b) EXCEPT !.neg = FALSE], Tolerance)

\* C13: with the sharpness 1/n the k-th call from (1, 0) returns
\* (1 - k/n, k/n) for k < n, not yet (0, 1), and the n-th call returns
\* exactly (0, 1).
DeterministicSchedule ==
    \A n \in ScheduleN :
        /\ (it_counter >= 1 /\ it_counter < n) =>
              /\ Near(w[1], FSub(FOne, Dec(it_counter, n)))
              /\ Near(w[2], Dec(it_counter, n))
              /\ w[2] # FOne
        /\ it_counter = n => w = <<FZero, FOne>>

\* C14: a sharpness <= 0 is rejected as a configuration error: update_weights
\* returns no pair for it.
NonPositiveRejected ==
    (FLeq(switch_shp[1], FZero) /\ it_counter >= 1) => pc = "ConfigurationError"

----------------------------------------------------------------------------
(* Properties of the loop, continued                                       *)

\* STEADY: weights (1, 0), no active kind, no incoming model
Steady == w = reset_weights /\ switch_type = "NONE" /\ new_model = None

\* BLENDING: 0 < w_new < 1, an active kind, an incoming model
BlendingState == Blending(w) /\ switch_type # "NONE" /\ new_model # None

\* the event k was recorded in STEADY
SteadyEvent(k) ==
    /\ rc[k].weights = reset_weights
    /\ rc[k].cur_switch = <<"NONE">>
    /\ rc[k].new_model_id = -1

\* the event k was recorded in BLENDING
BlendingEvent(k) ==
    /\ rc[k].weights[2] # FZero
    /\ ~use_sig_w => Blending(rc[k].weights)
    /\ rc[k].cur_switch[1] # "NONE"
    /\ rc[k].new_model_id # -1

\* C15: at the end of every period the loop is in STEADY or in BLENDING, and
\* every event was recorded in one of the two; w_new = 1 never goes with an
\* incoming model or an active kind.
TwoStates ==
    /\ pc \in {"loop", "returned"} => Steady \/ BlendingState
    /\ w[2] = FOne => new_model = None /\ switch_type = "NONE"
    /\ \A k \in 1..Len(rc) : SteadyEvent(k) \/ BlendingEvent(k)

\* C16: the entry of ts of every period agrees with its event: a blend of
\* the current and the incoming model with the recorded pair while a switch
\* is active, else the current model's forecast alone with the pair (1, 0).
OutputConsistent ==
    \A k \in 1..Len(ts) :
        /\ IF rc[k].new_model_id # -1
           THEN ts[k] = [old |-> rc[k].current_model_id,
                         new |-> <<rc[k].new_model_id>>,
                         weights |-> rc[k].weights]
           ELSE /\ ts[k] = [old |-> rc[k].current_model_id, new |-> None,
                            weights |-> None]
                /\ rc[k].weights = reset_weights
        /\ rc[k].weights[2] # FZero => ts[k].new # None

\* the sharpness a configuration holds for a kind
KindSharpness(kind, conf) ==
    IF kind = "GRADUAL" THEN conf.gradual_drift_sharpness
    ELSE IF kind = "ABRUPT" THEN conf.abrupt_drift_sharpness
    ELSE conf.defined_drift_sharpness[1]

\* the model id an event shows for the incoming model
ModelId(model) == IF model = None THEN -1 ELSE model[1]

\* the event just recorded shows the locals as they were before the period
UnchangedEvent ==
    /\ LastEvent'.cur_switch[1] = switch_type
    /\ LastEvent'.new_model_id = ModelId(new_model)
    /\ LastEvent'.current_model_id = current_model
    /\ LastEvent'.weights = IF use_sig_w THEN sig_w ELSE w

\* the event just recorded shows a switch that started, with the weights
\* recorded
StartEvent(weights) ==
    /\ LastEvent'.cur_switch[1] = LastEvent'.new_switch
    /\ LastEvent'.new_model_id # -1
    /\ LastEvent'.new_model_id =
          IF new_model' = None THEN current_model' ELSE new_model'[1]
    /\ LastEvent'.current_model_id = current_model
    /\ LastEvent'.weights = weights
    /\ LastEvent'.weights # reset_weights

\* (1, 0) advanced once by the sharpness of the kind that just started
AdvancedOnce ==
    update_weights(reset_weights, KindSharpness(LastEvent'.new_switch, tool_params'))

\* C17 as stated: the event of a period in which a switch starts has the
\* new kind as proposed and as active kind, the selected model, the outgoing
\* model as current and the weights (1, 0) advanced once by the kind's
\* sharpness; every other event has the proposed kind NONE.
PostDecisionLinear ==
    [][Records =>
          IF LastEvent'.new_switch # "NONE" THEN StartEvent(AdvancedOnce)
          ELSE UnchangedEvent]_vars

\* C17: as above, where under w_func = 'sig' the weights recorded are the
\* sigmoid pair of the weights advanced once.
PostDecisionRecording ==
    [][Records =>
          IF LastEvent'.new_switch # "NONE"
          THEN StartEvent(IF use_sig_w THEN SigmoidPair(AdvancedOnce)
                          ELSE AdvancedOnce)
          ELSE UnchangedEvent]_vars

\* a GRADUAL switch has just started under w_func = 'sig', and one under
\* 'linear' would have recorded another pair
PostDecisionWitness ==
    /\ use_sig_w
    /\ Len(rc) >= 1
    /\ LastEvent.new_switch = "GRADUAL"
    /\ LastEvent.weights =
          SigmoidPair(update_weights(reset_weights, tool_params.gradual_drift_sharpness))
    /\ LastEvent.weights #
          update_weights(reset_weights, tool_params.gradual_drift_sharpness)

\* the weights after step 2 of the period that just recorded its event
WorkingPair == IF LastEvent'.new_switch # "NONE" THEN AdvancedOnce ELSE w

\* the weights the end-of-period advance of that period returns when made
\* with the sharpness of the active kind
AdvancedAgain ==
    update_weights(WorkingPair, KindSharpness(LastEvent'.cur_switch[1], tool_params'))

\* 100.0 / float(length + 1) / 100.0 for the map entry of a period
DerivedSharpnessOf(period) ==
    FDiv(FDiv(F100, FFromInt(tool_params.transition_map[EntryAt(period)][2] + 1)),
         F100)

\* C18: the first advance of a switch and each end-of-period advance use
\* the sharpness of the active kind (gradual_drift_sharpness,
\* abrupt_drift_sharpness, or 1/(duration + 1) of the map entry), the
\* sharpness tuple is that of the start for the whole blend, and no advance
\* is made with the kind NONE.
SharpnessCoupling ==
    [][Records =>
          /\ LastEvent'.new_switch = "PREDEFINED" =>
                /\ tool_params'.defined_drift_sharpness = <<DerivedSharpnessOf(it_counter)>>
                /\ Near(DerivedSharpnessOf(it_counter),
                        Dec(1, tool_params.transition_map[EntryAt(it_counter)][2] + 1))
          /\ LastEvent'.new_switch # "NONE" =>
                /\ LastEvent'.weights # reset_weights
                /\ ~use_sig_w => LastEvent'.weights = AdvancedOnce
                /\ switch_shp' = <<tool_params'.gradual_drift_sharpness,
                                   tool_params'.abrupt_drift_sharpness,
                                   tool_params'.defined_drift_sharpness>>
          /\ LastEvent'.new_switch = "NONE" => switch_shp' = switch_shp
          /\ (Blending(WorkingPair) /\ pc' = "loop") =>
                /\ LastEvent'.cur_switch[1] # "NONE"
                /\ switch_type' \in {LastEvent'.cur_switch[1], "NONE"}
                /\ IF AdvancedAgain[2] = FOne THEN w' = reset_weights
                   ELSE w' = AdvancedAgain]_vars

\* a PREDEFINED blend after its third advance
SharpnessCouplingWitness ==
    /\ Len(rc) >= 3
    /\ switch_type = "PREDEFINED"
    /\ rc[Len(rc) - 1].new_switch = "PREDEFINED"
    /\ LastEvent.new_switch = "NONE"
    /\ w = update_weights(update_weights(update_weights(reset_weights,
              switch_shp[3][1]), switch_shp[3][1]), switch_shp[3][1])
    /\ Blending(w)

\* the transition map has an entry for the period
HasEntry(period) ==
    \E i \in 1..Len(tool_params.transition_map) :
        tool_params.transition_map[i][1] = period

\* C19: in transition-map mode a period starts a switch exactly when the map
\* has an entry for it, no blend is in progress and state_counter is above
\* min_model_len; the switch is PREDEFINED with the entry's target; every
\* other period proposes NONE, so an entry passed over starts no switch later.
MapSwitches ==
    [][(Running /\ tool_params.use_transition_map) =>
          IF /\ HasEntry(it_counter)
             /\ ~Blending(w)
             /\ state_counter > tool_params.min_model_len
          THEN /\ Records
               /\ LastEvent'.new_switch = "PREDEFINED"
               /\ LastEvent'.cur_switch[1] = "PREDEFINED"
               /\ LastEvent'.new_model_id =
                     tool_params.transition_map[EntryAt(it_counter)][3]
          ELSE Records => /\ LastEvent'.new_switch = "NONE"
                          /\ LastEvent'.new_model_id = ModelId(new_model)]_vars

\* a run that returned with a map of two entries: the first started a switch
\* at period 1, the second fell into its blend, and no other switch started
MapSwitchesWitness ==
    /\ pc = "returned"
    /\ tool_params.use_transition_map
    /\ Len(tool_params.transition_map) = 2
    /\ rc[2].new_switch = "PREDEFINED"
    /\ rc[2].new_model_id # rc[2].current_model_id
    /\ Blending(rc[tool_params.transition_map[2][1]].weights)
    /\ \A k \in 3..Len(rc) : rc[k].new_switch = "NONE"
    /\ LastEvent.current_model_id = rc[2].new_model_id

\* C20: the current model changes only when a switch completes, and then to
\* the incoming model of that switch; while an incoming model is set the
\* events record that model; from one event to the next current_model_id
\* stays or becomes the earlier event's new_model_id, and is never -1.
ModelChanges ==
    [][/\ current_model' # current_model =>
             /\ Completes
             /\ new_model # None \/ LastEvent'.new_switch # "NONE"
             /\ current_model' = LastEvent'.new_model_id
       /\ Records =>
             /\ new_model # None => LastEvent'.new_model_id = new_model[1]
             /\ LastEvent'.current_model_id = current_model
             /\ LastEvent'.current_model_id # -1
             /\ Len(rc) >= 1 =>
                   LastEvent'.current_model_id \in
                       {LastEvent.current_model_id, LastEvent.new_model_id}]_vars

\* the switch that started in event k is over in event j: its incoming model
\* is the current one and is no longer the incoming one of a blend going on
CompletedBy(k, j) ==
    /\ rc[j].current_model_id = rc[k].new_model_id
    /\ rc[j].new_model_id = -1 \/ rc[j].new_switch # "NONE"

\* C21: a switch that starts at period p has completed by the end of period
\* p + 8, and no switch blends the output for more than 9 periods in a row.
BoundedBlend ==
    /\ \A k \in 1..Len(rc) :
          (rc[k].new_switch # "NONE" /\ Len(rc) >= k + 9) =>
              \E j \in (k + 1)..(k + 9) : CompletedBy(k, j)
    /\ \A k \in 1..Len(ts) :
          Len(ts) >= k + 9 => \E j \in k..(k + 9) : ts[j].new = None

====
